---- MODULE Spec2Model ----
(***************************************************************************)
(* A state-machine model of github.com/skoved/otelutils: the tracer        *)
(* provider lifecycle (OtelInit / OtelEnd), the span helpers, the          *)
(* TRACEPARENT export, and the translation of the exporter and resource    *)
(* configuration structs into SDK options.                                 *)
(*                                                                         *)
(* The OpenTelemetry SDK itself is outside the repository; the few SDK     *)
(* behaviours the helpers rest on are modelled at the call sites, as the   *)
(* SDK documents them, and are marked "SDK:" below.                        *)
(***************************************************************************)
EXTENDS Integers, Sequences, FiniteSets, TLC

VARIABLES
    tp,            \* config.go: var tp *sdkTrace.TracerProvider (0 = nil)
    serviceName,   \* config.go: var serviceName string
    globalTP,      \* the provider registered by otel.SetTracerProvider (0 = none)
    globalProp,    \* the propagator installed by otel.SetTextMapPropagator
    providers,     \* every TracerProvider constructed so far, by identity
    expCalls,      \* number of exporter constructions attempted
    filesCreated,  \* number of files created by the legacy "file" exporter
    panicked,      \* the process died of a nil dereference
    lastCall,      \* the most recent lifecycle call and what it returned
    nCalls,        \* number of lifecycle calls made
    ocfg,          \* an OtlpGrpcSpanExporterConfig value
    oresult,       \* the exporter newSpanExporter built from ocfg
    rcfg,          \* a ResourceConfig value
    renv,          \* what the process environment gives the resource detectors
    rresult,       \* what newResource returned for rcfg in renv
    span,          \* one span handed out by StartSpan
    helperCalls,   \* the Error and StatusOK calls made on that span
    pctx,          \* a context passed to GetTraceParentEnv
    envOut,        \* what GetTraceParentEnv returned for pctx
    goroutines     \* the OtelInit calls in progress on other goroutines

lifecycleVars ==
    <<tp, serviceName, globalTP, globalProp, providers, expCalls,
      filesCreated, panicked, lastCall, nCalls>>

exporterVars == <<ocfg, oresult>>

resourceVars == <<rcfg, renv, rresult>>

spanVars == <<span, helperCalls>>

propagationVars == <<pctx, envOut>>

concurrentVars == <<goroutines>>

vars ==
    <<lifecycleVars, exporterVars, resourceVars, spanVars, propagationVars,
      concurrentVars>>

-----------------------------------------------------------------------------
(* Bounds of the model. *)

MaxCalls == 4
MaxRetryOptions == 2
MaxToggles == 2
MaxAttributes == 2
MaxErrorCalls == 129
NumGoroutines == 2

-----------------------------------------------------------------------------
(* Values. *)

Nil == "nil"

NoProvider == 0

\* supported otel exporters (the const block), plus one unsupported kind
fileExporter == "file"
consoleExporter == "console"
otlpExporter == "otlp"
ExporterKinds == {fileExporter, consoleExporter, otlpExporter, "zipkin"}

ServiceNames == {"cli"}

\* the global propagator before any is installed: it composes nothing
NoopPropagator == <<>>
\* propagation.NewCompositeTextMapPropagator(TraceContext{}, Baggage{})
CompositePropagator == <<"tracecontext", "baggage">>

-----------------------------------------------------------------------------
(* SDK: the tracer provider, as far as OtelEnd can observe it.  A provider *)
(* is the log of the calls made on it, each with the value it returned.    *)

\* log: the calls made, in order; shutdown: Shutdown has been invoked;
\* stops: how many times the span processors were actually shut down.
NewTracerProvider == [log |-> <<>>, shutdown |-> FALSE, stops |-> 0]

IsShutdown(p) == p.shutdown

\* SDK: ForceFlush exports what is buffered; it may fail (context deadline,
\* exporter error) and leaves the provider's lifecycle alone.
ProviderForceFlush(p, res) ==
    [p EXCEPT !.log = Append(@, [m |-> "ForceFlush", r |-> res])]

\* SDK: Shutdown runs each span processor's shutdown once; on a provider
\* already shut down it does nothing and returns nil.
ProviderShutdown(p, res) ==
    IF IsShutdown(p)
    THEN [p EXCEPT !.log = Append(@, [m |-> "Shutdown", r |-> Nil])]
    ELSE [p EXCEPT !.log = Append(@, [m |-> "Shutdown", r |-> res]),
                   !.shutdown = TRUE,
                   !.stops = @ + 1]

LastResult(p) == p.log[Len(p.log)].r

-----------------------------------------------------------------------------
(* The lifecycle state as one record, so that each entry point is a        *)
(* function from state and inputs to state.                                *)

Cur ==
    [tp |-> tp, serviceName |-> serviceName, globalTP |-> globalTP,
     globalProp |-> globalProp, providers |-> providers,
     expCalls |-> expCalls, filesCreated |-> filesCreated,
     panicked |-> panicked, ret |-> Nil]

\* Variant of Activate that ends the provider it replaces first.
Activate_EndsPrevious(s) ==
    LET id == Len(s.providers) + 1
        ended == IF s.tp = NoProvider THEN s.providers
                 ELSE [s.providers EXCEPT ![s.tp] =
                          ProviderShutdown(ProviderForceFlush(@, Nil), Nil)] IN
    [s EXCEPT !.providers = Append(ended, NewTracerProvider),
              !.tp = id,
              !.globalTP = id,
              !.globalProp = CompositePropagator,
              !.ret = Nil]

\* tp = NewTracerProvider(...); otel.SetTracerProvider(tp);
\* otel.SetTextMapPropagator(...); return nil
Activate(s) ==
    LET id == Len(s.providers) + 1 IN
    [s EXCEPT !.providers = Append(@, NewTracerProvider),
              !.tp = id,
              !.globalTP = id,
              !.globalProp = CompositePropagator,
              !.ret = Nil]

\* Variant of OtelInitFn that builds and registers the provider before it
\* looks at the exporter error.
OtelInitFn_LateCheck(s, resErr, expErr) ==
    IF resErr # Nil THEN [s EXCEPT !.ret = resErr]
    ELSE LET s1 == Activate([s EXCEPT !.expCalls = @ + 1]) IN
         IF expErr # Nil THEN [s1 EXCEPT !.ret = expErr] ELSE s1

\* OtelInit(startCtx, resourceConf, exporterConfig), config.go
OtelInitFn(s, resErr, expErr) ==
    IF resErr # Nil THEN [s EXCEPT !.ret = resErr]
    ELSE LET s1 == [s EXCEPT !.expCalls = @ + 1] IN
         IF expErr # Nil THEN [s1 EXCEPT !.ret = expErr]
         ELSE Activate(s1)

\* OtelInit(name, otelExporter), the legacy initializer
LegacyOtelInitFn(s, name, kind, resErr, fileErr, expErr) ==
    LET s0 == [s EXCEPT !.serviceName = name] IN
    IF resErr # Nil THEN [s0 EXCEPT !.ret = resErr]
    ELSE IF kind = consoleExporter \/ kind = otlpExporter THEN
             LET s1 == [s0 EXCEPT !.expCalls = @ + 1] IN
             IF expErr # Nil THEN [s1 EXCEPT !.ret = expErr] ELSE Activate(s1)
    ELSE IF kind = fileExporter THEN
             IF fileErr # Nil THEN [s0 EXCEPT !.ret = fileErr]
             ELSE LET s1 == [s0 EXCEPT !.filesCreated = @ + 1,
                                       !.expCalls = @ + 1] IN
                  IF expErr # Nil THEN [s1 EXCEPT !.ret = expErr]
                  ELSE Activate(s1)
    ELSE [s0 EXCEPT !.ret = "ErrNotImplemented"]

\* Variant of OtelEndFn that shuts down whether or not the flush failed.
OtelEndFn_AlwaysShutdown(s, flushRes, shutRes) ==
    IF s.tp = NoProvider THEN [s EXCEPT !.panicked = TRUE, !.ret = "panic"]
    ELSE LET p1 == ProviderForceFlush(s.providers[s.tp], flushRes)
             p2 == ProviderShutdown(p1, shutRes) IN
         [s EXCEPT !.providers[s.tp] = p2,
                   !.ret = IF flushRes # Nil THEN flushRes ELSE LastResult(p2)]

\* Variant of OtelEndFn that clears tp once the provider is shut down.
OtelEndFn_ResetsTp(s, flushRes, shutRes) ==
    IF s.tp = NoProvider THEN [s EXCEPT !.panicked = TRUE, !.ret = "panic"]
    ELSE LET p1 == ProviderForceFlush(s.providers[s.tp], flushRes) IN
         IF flushRes # Nil
         THEN [s EXCEPT !.providers[s.tp] = p1, !.ret = flushRes]
         ELSE LET p2 == ProviderShutdown(p1, shutRes) IN
              [s EXCEPT !.providers[s.tp] = p2, !.ret = LastResult(p2),
                        !.tp = NoProvider]

\* OtelEnd: flush, and only if that succeeded shut down.  A nil tp is
\* dereferenced by tp.ForceFlush: the process panics.
OtelEndFn(s, flushRes, shutRes) ==
    IF s.tp = NoProvider THEN [s EXCEPT !.panicked = TRUE, !.ret = "panic"]
    ELSE LET p1 == ProviderForceFlush(s.providers[s.tp], flushRes) IN
         IF flushRes # Nil
         THEN [s EXCEPT !.providers[s.tp] = p1, !.ret = flushRes]
         ELSE LET p2 == ProviderShutdown(p1, shutRes) IN
              [s EXCEPT !.providers[s.tp] = p2, !.ret = LastResult(p2)]

-----------------------------------------------------------------------------
(* The lifecycle actions. *)

Commit(op, args, s) ==
    /\ tp' = s.tp
    /\ serviceName' = s.serviceName
    /\ globalTP' = s.globalTP
    /\ globalProp' = s.globalProp
    /\ providers' = s.providers
    /\ expCalls' = s.expCalls
    /\ filesCreated' = s.filesCreated
    /\ panicked' = s.panicked
    /\ lastCall' = [op |-> op, args |-> args, ret |-> s.ret, prev |-> lastCall.op]
    /\ nCalls' = nCalls + 1
    /\ UNCHANGED <<exporterVars, resourceVars, spanVars, propagationVars,
                   concurrentVars>>

CanCall == ~panicked /\ nCalls < MaxCalls

OtelInit ==
    /\ CanCall
    /\ \E resErr \in {Nil, "ErrResource"}, expErr \in {Nil, "ErrExporter"} :
          Commit("OtelInit",
                 [kind |-> "config", resErr |-> resErr, fileErr |-> Nil,
                  expErr |-> expErr],
                 OtelInitFn(Cur, resErr, expErr))

LegacyOtelInit ==
    /\ CanCall
    /\ \E name \in ServiceNames, kind \in ExporterKinds,
          resErr \in {Nil, "ErrResource"}, fileErr \in {Nil, "ErrFile"},
          expErr \in {Nil, "ErrExporter"} :
          Commit("OtelInit",
                 [kind |-> kind, resErr |-> resErr, fileErr |-> fileErr,
                  expErr |-> expErr],
                 LegacyOtelInitFn(Cur, name, kind, resErr, fileErr, expErr))

OtelEnd ==
    /\ CanCall
    /\ \E flushRes \in {Nil, "ErrFlush"}, shutRes \in {Nil, "ErrShutdown"} :
          Commit("OtelEnd", [flushRes |-> flushRes, shutRes |-> shutRes],
                 OtelEndFn(Cur, flushRes, shutRes))

LifecycleInit ==
    /\ tp = NoProvider
    /\ serviceName = ""
    /\ globalTP = NoProvider
    /\ globalProp = NoopPropagator
    /\ providers = <<>>
    /\ expCalls = 0
    /\ filesCreated = 0
    /\ panicked = FALSE
    /\ lastCall = [op |-> "none", args |-> <<>>, ret |-> Nil, prev |-> "none"]
    /\ nCalls = 0

-----------------------------------------------------------------------------
(* OtelInit called from several goroutines at once.  Nothing in the        *)
(* package synchronizes the calls, so each statement of OtelInit is a step *)
(* of its own and the steps of different calls interleave freely.  The     *)
(* statement otel.SetTracerProvider(tp) is two steps: the argument is      *)
(* evaluated, which loads the package variable tp, and then the call       *)
(* stores the loaded provider in the otel globals.  The accesses to tp are *)
(* a data race; tp is one machine word, so a load yields one of the values *)
(* stored, and the interleavings below are among the executions a build    *)
(* can produce.                                                            *)

Goroutines == 1..NumGoroutines

\* a call that has not executed any statement yet
Entered == [pc |-> "newResource", arg |-> NoProvider, ret |-> Nil]

NoGoroutines == <<>>

ConcurrentIdle == goroutines = NoGoroutines

\* the position of call g moves to pc
Goto(g, pc) == [goroutines EXCEPT ![g].pc = pc]

\* call g returns ret
Return(g, ret) == [goroutines EXCEPT ![g].pc = "returned", ![g].ret = ret]

AllReturned ==
    /\ goroutines # NoGoroutines
    /\ \A g \in Goroutines : goroutines[g].pc = "returned"

\* resource, err := resourceConf.newResource(startCtx); if err != nil ...
StepNewResource(g) ==
    /\ goroutines[g].pc = "newResource"
    /\ \E resErr \in {Nil, "ErrResource"} :
          goroutines' = IF resErr # Nil THEN Return(g, resErr)
                        ELSE Goto(g, "newSpanExporter")
    /\ UNCHANGED <<lifecycleVars, exporterVars, resourceVars, spanVars,
                   propagationVars>>

\* exp, err := exporterConfig.newSpanExporter(startCtx); if err != nil ...
StepNewSpanExporter(g) ==
    /\ goroutines[g].pc = "newSpanExporter"
    /\ expCalls' = expCalls + 1
    /\ \E expErr \in {Nil, "ErrExporter"} :
          goroutines' = IF expErr # Nil THEN Return(g, expErr)
                        ELSE Goto(g, "assignTp")
    /\ UNCHANGED <<tp, serviceName, globalTP, globalProp, providers,
                   filesCreated, panicked, lastCall, nCalls, exporterVars,
                   resourceVars, spanVars, propagationVars>>

\* tp = sdkTrace.NewTracerProvider(...)
StepAssignTp(g) ==
    /\ goroutines[g].pc = "assignTp"
    /\ providers' = Append(providers, NewTracerProvider)
    /\ tp' = Len(providers) + 1
    /\ goroutines' = Goto(g, "loadTp")
    /\ UNCHANGED <<serviceName, globalTP, globalProp, expCalls, filesCreated,
                   panicked, lastCall, nCalls, exporterVars, resourceVars,
                   spanVars, propagationVars>>

\* otel.SetTracerProvider(tp): the argument tp is loaded
StepLoadTp(g) ==
    /\ goroutines[g].pc = "loadTp"
    /\ goroutines' = [goroutines EXCEPT ![g].pc = "SetTracerProvider",
                                        ![g].arg = tp]
    /\ UNCHANGED <<lifecycleVars, exporterVars, resourceVars, spanVars,
                   propagationVars>>

\* otel.SetTracerProvider(tp): the loaded provider is registered
StepSetTracerProvider(g) ==
    /\ goroutines[g].pc = "SetTracerProvider"
    /\ globalTP' = goroutines[g].arg
    /\ goroutines' = Goto(g, "SetTextMapPropagator")
    /\ UNCHANGED <<tp, serviceName, globalProp, providers, expCalls,
                   filesCreated, panicked, lastCall, nCalls, exporterVars,
                   resourceVars, spanVars, propagationVars>>

\* otel.SetTextMapPropagator(...); return nil
StepSetTextMapPropagator(g) ==
    /\ goroutines[g].pc = "SetTextMapPropagator"
    /\ globalProp' = CompositePropagator
    /\ goroutines' = Return(g, Nil)
    /\ UNCHANGED <<tp, serviceName, globalTP, providers, expCalls,
                   filesCreated, panicked, lastCall, nCalls, exporterVars,
                   resourceVars, spanVars, propagationVars>>

-----------------------------------------------------------------------------
(* The OTLP/gRPC exporter configuration.  Durations are in seconds.        *)

\* RetryOption constructors: each returns a function setting one field.
RetryEnabled(enabled) == [field |-> "Enabled", val |-> enabled]
RetryInitialInterval(interval) == [field |-> "InitialInterval", val |-> interval]
RetryMaxInterval(interval) == [field |-> "MaxInterval", val |-> interval]
RetryMaxElapsedTime(interval) == [field |-> "MaxElapsedTime", val |-> interval]

\* option(&retryConfig)
ApplyRetryOption(rc, option) == [rc EXCEPT ![option.field] = option.val]

\* retryConfig := otlptracegrpc.RetryConfig{}
ZeroRetryConfig ==
    [Enabled |-> FALSE, InitialInterval |-> 0, MaxInterval |-> 0,
     MaxElapsedTime |-> 0]

\* SDK: the exporter's built-in policy: retry after 5 seconds, grow
\* exponentially up to 30 seconds, for no more than 1 minute in total.
DefaultRetryConfig ==
    [Enabled |-> TRUE, InitialInterval |-> 5, MaxInterval |-> 30,
     MaxElapsedTime |-> 60]

RECURSIVE ApplyRetryOptions(_, _)
\* for _, option := range o.RetryOptions { option(&retryConfig) }
ApplyRetryOptions(rc, options) ==
    IF options = <<>> THEN rc
    ELSE ApplyRetryOptions(ApplyRetryOption(rc, Head(options)), Tail(options))

\* An option of the list getOptions returns.
Opt(name, val) == [name |-> name, val |-> val]

OptIf(cond, name, val) == IF cond THEN <<Opt(name, val)>> ELSE <<>>

\* Variant of OtlpGetOptions that treats GrpcConn and Endpoint as
\* alternatives: the connection is passed on only without an endpoint.
OtlpGetOptions_ConnOrEndpoint(o) ==
       OptIf(o.Compressor # "", "WithCompressor", o.Compressor)
    \o OptIf(Len(o.DialOptions) > 0, "WithDialOption", o.DialOptions)
    \o OptIf(o.Endpoint # "", "WithEndpoint", o.Endpoint)
    \o OptIf(o.GrpcConn # Nil /\ o.Endpoint = "", "WithGRPCConn", o.GrpcConn)
    \o OptIf(o.Headers # <<>>, "WithHeaders", o.Headers)
    \o OptIf(o.Insecure, "WithInsecure", TRUE)
    \o OptIf(o.ReconnectionPeriod # 0, "WithReconnectionPeriod", o.ReconnectionPeriod)
    \o OptIf(Len(o.RetryOptions) > 0, "WithRetry",
             ApplyRetryOptions(ZeroRetryConfig, o.RetryOptions))
    \o OptIf(o.ServiceConfig # "", "WithServiceConfig", o.ServiceConfig)
    \o OptIf(o.TlsCredentials # Nil, "WithTLSCredentials", o.TlsCredentials)
    \o OptIf(o.Timeout # 0, "WithTimeout", o.Timeout)

\* OtlpGrpcSpanExporterConfig.getOptions
OtlpGetOptions(o) ==
       OptIf(o.Compressor # "", "WithCompressor", o.Compressor)
    \o OptIf(Len(o.DialOptions) > 0, "WithDialOption", o.DialOptions)
    \o OptIf(o.Endpoint # "", "WithEndpoint", o.Endpoint)
    \o OptIf(o.GrpcConn # Nil, "WithGRPCConn", o.GrpcConn)
    \o OptIf(o.Headers # <<>>, "WithHeaders", o.Headers)
    \o OptIf(o.Insecure, "WithInsecure", TRUE)
    \o OptIf(o.ReconnectionPeriod # 0, "WithReconnectionPeriod", o.ReconnectionPeriod)
    \o OptIf(Len(o.RetryOptions) > 0, "WithRetry",
             ApplyRetryOptions(ZeroRetryConfig, o.RetryOptions))
    \o OptIf(o.ServiceConfig # "", "WithServiceConfig", o.ServiceConfig)
    \o OptIf(o.TlsCredentials # Nil, "WithTLSCredentials", o.TlsCredentials)
    \o OptIf(o.Timeout # 0, "WithTimeout", o.Timeout)

\* SDK: the settings otlptracegrpc starts from before any option.
SdkDefaultSettings ==
    [WithCompressor |-> "", WithDialOption |-> <<>>,
     WithEndpoint |-> "localhost:4317", WithGRPCConn |-> Nil,
     WithHeaders |-> <<>>, WithInsecure |-> FALSE,
     WithReconnectionPeriod |-> 0, WithRetry |-> DefaultRetryConfig,
     WithServiceConfig |-> "", WithTLSCredentials |-> Nil,
     WithTimeout |-> 10]

RECURSIVE SdkApplyOptions(_, _)
\* SDK: each option overwrites the one setting it is named after.
SdkApplyOptions(settings, options) ==
    IF options = <<>> THEN settings
    ELSE SdkApplyOptions([settings EXCEPT ![Head(options).name] = Head(options).val],
                         Tail(options))

\* SDK: how the exporter's client gets its connection.  A supplied
\* connection is used as it is; otherwise the client dials the endpoint
\* with dial options made of the credentials (TLS credentials before
\* Insecure, the host's root CA by default), the service config, the
\* compressor, the caller's dial options and the reconnection period.
SdkConnection(c) ==
    IF c.WithGRPCConn # Nil
    THEN [kind |-> "supplied", conn |-> c.WithGRPCConn]
    ELSE [kind |-> "dialed",
          endpoint |-> c.WithEndpoint,
          security |-> IF c.WithTLSCredentials # Nil THEN c.WithTLSCredentials
                       ELSE IF c.WithInsecure THEN "insecure"
                       ELSE "host-root-ca",
          serviceConfig |-> c.WithServiceConfig,
          compressor |-> c.WithCompressor,
          dialOptions |-> c.WithDialOption,
          reconnectionPeriod |-> c.WithReconnectionPeriod]

\* OtlpGrpcSpanExporterConfig.newSpanExporter:
\* otlptracegrpc.New(ctx, o.getOptions()...)
OtlpNewSpanExporter(o) ==
    LET c == SdkApplyOptions(SdkDefaultSettings, OtlpGetOptions(o)) IN
    [done |-> TRUE,
     options |-> OtlpGetOptions(o),
     connection |-> SdkConnection(c),
     headers |-> c.WithHeaders,
     retry |-> c.WithRetry,
     timeout |-> c.WithTimeout]

NotBuilt == [done |-> FALSE]

\* The retry options a caller can pass.
RetryOptionSet ==
    {RetryEnabled(b) : b \in BOOLEAN}
    \cup {RetryInitialInterval(d) : d \in {1, 2}}
    \cup {RetryMaxInterval(d) : d \in {0, 7}}
    \cup {RetryMaxElapsedTime(d) : d \in {9}}

SeqsUpTo(S, n) == UNION {[1..k -> S] : k \in 0..n}

\* Configurations that vary the retry options.
RetryConfigs ==
    [Compressor : {""}, DialOptions : {<<>>}, Endpoint : {"", "collector:4317"},
     GrpcConn : {Nil}, Headers : {<<>>}, Insecure : BOOLEAN,
     ReconnectionPeriod : {0},
     RetryOptions : SeqsUpTo(RetryOptionSet, MaxRetryOptions),
     ServiceConfig : {""}, TlsCredentials : {Nil}, Timeout : {0}]

\* Configurations that vary every other field.
ConnConfigs ==
    [Compressor : {"", "gzip"}, DialOptions : {<<>>, <<"WithBlock">>},
     Endpoint : {"", "collector:4317"}, GrpcConn : {Nil, "conn"},
     Headers : {<<>>, <<"authorization">>}, Insecure : BOOLEAN,
     ReconnectionPeriod : {0, 3},
     RetryOptions : {<<>>, <<RetryEnabled(FALSE)>>},
     ServiceConfig : {"", "{}"}, TlsCredentials : {Nil, "tls"},
     Timeout : {0, 4}]

ExporterIdle == ocfg = NotBuilt /\ oresult = NotBuilt

\* exp, err := exporterConfig.newSpanExporter(startCtx)
NewSpanExporter ==
    /\ ~oresult.done
    /\ oresult' = OtlpNewSpanExporter(ocfg)
    /\ UNCHANGED <<ocfg, lifecycleVars, resourceVars, spanVars, propagationVars,
                   concurrentVars>>

-----------------------------------------------------------------------------
(* The resource configuration.  A resource is a schema URL and a set of    *)
(* attributes, a function from keys to values.                             *)

\* semconv.SchemaURL of go.opentelemetry.io/otel/semconv/v1.12.0
SchemaURL == "https://opentelemetry.io/schemas/1.12.0"

\* The boolean fields of ResourceConfig, in the order getOptions reads them.
Toggles ==
    <<"Container", "ContainerID", "FromEnv", "Host", "OS", "OSDescription",
      "OSType", "Process", "ProcessCommandArgs", "ProcessExecutableName",
      "ProcessExecutablePath", "ProcessOwner", "ProcessPID",
      "ProcessRuntimeDescription", "ProcessRuntimeName",
      "ProcessRuntimeVersion">>

ToggleSet == {Toggles[i] : i \in 1..Len(Toggles)}

\* Variant of ResourceGetOptions in which the branch for OSType appends the
\* option of the branch above it.
ResourceGetOptions_CopiedBranch(r) ==
       <<Opt("WithSchemaURL", SchemaURL), Opt("WithTelemetrySDK", TRUE)>>
    \o OptIf(Len(r.Attributes) > 0, "WithAttributes", r.Attributes)
    \o OptIf(r.Container, "WithContainer", TRUE)
    \o OptIf(r.ContainerID, "WithContainerID", TRUE)
    \o OptIf(Len(r.detectors) > 0, "WithDetectors", r.detectors)
    \o OptIf(r.FromEnv, "WithFromEnv", TRUE)
    \o OptIf(r.Host, "WithHost", TRUE)
    \o OptIf(r.OS, "WithOS", TRUE)
    \o OptIf(r.OSDescription, "WithOSDescription", TRUE)
    \o OptIf(r.OSType, "WithOSDescription", TRUE)
    \o OptIf(r.Process, "WithProcess", TRUE)
    \o OptIf(r.ProcessCommandArgs, "WithProcessCommandArgs", TRUE)
    \o OptIf(r.ProcessExecutableName, "WithProcessExecutableName", TRUE)
    \o OptIf(r.ProcessExecutablePath, "WithProcessExecutablePath", TRUE)
    \o OptIf(r.ProcessOwner, "WithProcessOwner", TRUE)
    \o OptIf(r.ProcessPID, "WithProcessPID", TRUE)
    \o OptIf(r.ProcessRuntimeDescription, "WithProcessRuntimeDescription", TRUE)
    \o OptIf(r.ProcessRuntimeName, "WithProcessRuntimeName", TRUE)
    \o OptIf(r.ProcessRuntimeVersion, "WithProcessRuntimeVersion", TRUE)

\* ResourceConfig.getOptions
ResourceGetOptions(r) ==
       <<Opt("WithSchemaURL", SchemaURL), Opt("WithTelemetrySDK", TRUE)>>
    \o OptIf(Len(r.Attributes) > 0, "WithAttributes", r.Attributes)
    \o OptIf(r.Container, "WithContainer", TRUE)
    \o OptIf(r.ContainerID, "WithContainerID", TRUE)
    \o OptIf(Len(r.detectors) > 0, "WithDetectors", r.detectors)
    \o OptIf(r.FromEnv, "WithFromEnv", TRUE)
    \o OptIf(r.Host, "WithHost", TRUE)
    \o OptIf(r.OS, "WithOS", TRUE)
    \o OptIf(r.OSDescription, "WithOSDescription", TRUE)
    \o OptIf(r.OSType, "WithOSType", TRUE)
    \o OptIf(r.Process, "WithProcess", TRUE)
    \o OptIf(r.ProcessCommandArgs, "WithProcessCommandArgs", TRUE)
    \o OptIf(r.ProcessExecutableName, "WithProcessExecutableName", TRUE)
    \o OptIf(r.ProcessExecutablePath, "WithProcessExecutablePath", TRUE)
    \o OptIf(r.ProcessOwner, "WithProcessOwner", TRUE)
    \o OptIf(r.ProcessPID, "WithProcessPID", TRUE)
    \o OptIf(r.ProcessRuntimeDescription, "WithProcessRuntimeDescription", TRUE)
    \o OptIf(r.ProcessRuntimeName, "WithProcessRuntimeName", TRUE)
    \o OptIf(r.ProcessRuntimeVersion, "WithProcessRuntimeVersion", TRUE)

EmptyAttrs == [k \in {} |-> ""]

\* SDK: the value a detector reads from the platform for key k.
Detected(keys) == [k \in keys |-> "detected"]

ProcessKeys ==
    {"process.command_args", "process.executable.name",
     "process.executable.path", "process.owner", "process.pid",
     "process.runtime.description", "process.runtime.name",
     "process.runtime.version"}

SdkKeys == {"telemetry.sdk.language", "telemetry.sdk.name", "telemetry.sdk.version"}

\* The attributes that only an attribute-group option contributes.
GroupKeys == {"container.id", "host.name", "os.type", "os.description"} \cup ProcessKeys

\* SDK: merging b over a: on a common key b's value replaces a's.
MergeAttrs(a, b) ==
    [k \in DOMAIN a \cup DOMAIN b |-> IF k \in DOMAIN b THEN b[k] ELSE a[k]]

RECURSIVE AttrSet(_)
\* SDK: attribute.NewSet keeps, for a key given twice, the last value.
AttrSet(kvs) ==
    IF kvs = <<>> THEN EmptyAttrs
    ELSE LET n == Len(kvs) IN
         MergeAttrs(AttrSet(SubSeq(kvs, 1, n - 1)), [k \in {kvs[n].k} |-> kvs[n].v])

RECURSIVE DetectAll(_)
\* SDK: WithDetectors merges what each detector returns, in order.
DetectAll(ds) ==
    IF ds = <<>> THEN EmptyAttrs ELSE MergeAttrs(ds[1], DetectAll(Tail(ds)))

\* SDK: the attributes one resource option contributes in environment env.
OptionAttrs(opt, env) ==
    CASE opt.name = "WithSchemaURL" -> EmptyAttrs
      [] opt.name = "WithTelemetrySDK" -> Detected(SdkKeys)
      [] opt.name = "WithAttributes" -> AttrSet(opt.val)
      [] opt.name = "WithContainer" -> Detected({"container.id"})
      [] opt.name = "WithContainerID" -> Detected({"container.id"})
      [] opt.name = "WithDetectors" -> DetectAll(opt.val)
      [] opt.name = "WithFromEnv" -> env.attrs
      [] opt.name = "WithHost" -> Detected({"host.name"})
      [] opt.name = "WithOS" -> Detected({"os.type", "os.description"})
      [] opt.name = "WithOSDescription" -> Detected({"os.description"})
      [] opt.name = "WithOSType" -> Detected({"os.type"})
      [] opt.name = "WithProcess" -> Detected(ProcessKeys)
      [] opt.name = "WithProcessCommandArgs" -> Detected({"process.command_args"})
      [] opt.name = "WithProcessExecutableName" -> Detected({"process.executable.name"})
      [] opt.name = "WithProcessExecutablePath" -> Detected({"process.executable.path"})
      [] opt.name = "WithProcessOwner" -> Detected({"process.owner"})
      [] opt.name = "WithProcessPID" -> Detected({"process.pid"})
      [] opt.name = "WithProcessRuntimeDescription" -> Detected({"process.runtime.description"})
      [] opt.name = "WithProcessRuntimeName" -> Detected({"process.runtime.name"})
      [] opt.name = "WithProcessRuntimeVersion" -> Detected({"process.runtime.version"})

\* SDK: the options that read the platform and can therefore fail.
Fallible(opt) ==
    opt.name \notin {"WithSchemaURL", "WithTelemetrySDK", "WithAttributes"}

RECURSIVE SdkResourceAttrs(_, _)
\* SDK: resource.New runs the options' detectors in order and merges each
\* result over what the earlier ones gave.
SdkResourceAttrs(options, env) ==
    IF options = <<>> THEN EmptyAttrs
    ELSE LET n == Len(options) IN
         MergeAttrs(SdkResourceAttrs(SubSeq(options, 1, n - 1), env),
                    OptionAttrs(options[n], env))

\* SDK: resource.New; a failing detector makes it return an error.
SdkResourceNew(options, env) ==
    [err |-> IF env.detectFails /\ \E i \in 1..Len(options) : Fallible(options[i])
             THEN "ErrDetect" ELSE Nil,
     schemaURL |-> SchemaURL,
     attrs |-> SdkResourceAttrs(options, env)]

\* SDK: resource.Default(): the service name, then the environment's
\* attributes, then the SDK's identification.
SdkResourceDefault(env) ==
    [err |-> Nil,
     schemaURL |-> SchemaURL,
     attrs |-> MergeAttrs(MergeAttrs([k \in {"service.name"} |-> "unknown_service"],
                                     env.attrs),
                          Detected(SdkKeys))]

\* SDK: resource.Merge(a, b); differing schema URLs are a conflict.
SdkResourceMerge(a, b) ==
    [err |-> IF a.schemaURL # b.schemaURL THEN "ErrSchemaURLConflict" ELSE Nil,
     schemaURL |-> b.schemaURL,
     attrs |-> MergeAttrs(a.attrs, b.attrs)]

NoResource == [err |-> Nil, schemaURL |-> "", attrs |-> EmptyAttrs]

\* ResourceConfig.newResource
NewResourceFn(r, env) ==
    LET newResource == SdkResourceNew(ResourceGetOptions(r), env) IN
    IF newResource.err # Nil THEN [NoResource EXCEPT !.err = newResource.err]
    ELSE SdkResourceMerge(SdkResourceDefault(env), newResource)

\* A ResourceConfig with the given attributes and detectors and exactly the
\* boolean fields in `on` true.
ResourceConfigOf(attributes, dets, on) ==
    [Attributes |-> attributes, detectors |-> dets,
     Container |-> "Container" \in on, ContainerID |-> "ContainerID" \in on,
     FromEnv |-> "FromEnv" \in on, Host |-> "Host" \in on, OS |-> "OS" \in on,
     OSDescription |-> "OSDescription" \in on, OSType |-> "OSType" \in on,
     Process |-> "Process" \in on,
     ProcessCommandArgs |-> "ProcessCommandArgs" \in on,
     ProcessExecutableName |-> "ProcessExecutableName" \in on,
     ProcessExecutablePath |-> "ProcessExecutablePath" \in on,
     ProcessOwner |-> "ProcessOwner" \in on,
     ProcessPID |-> "ProcessPID" \in on,
     ProcessRuntimeDescription |-> "ProcessRuntimeDescription" \in on,
     ProcessRuntimeName |-> "ProcessRuntimeName" \in on,
     ProcessRuntimeVersion |-> "ProcessRuntimeVersion" \in on]

KV(k, v) == [k |-> k, v |-> v]

\* The attributes a caller passes: a key of no group, twice, and a key the
\* host group detects.
AttributeSet == {KV("team", "a"), KV("team", "b"), KV("host.name", "a")}

\* What a detector passed in the unexported detectors field returns.
DetectorSet == {[k \in {"region"} |-> "detected"]}

ToggleChoices ==
    {on \in SUBSET ToggleSet : Cardinality(on) <= MaxToggles} \cup {ToggleSet}

ResourceConfigs ==
    {ResourceConfigOf(a, d, on) :
        a \in SeqsUpTo(AttributeSet, MaxAttributes),
        d \in SeqsUpTo(DetectorSet, 1),
        on \in ToggleChoices}

\* OTEL_RESOURCE_ATTRIBUTES as parsed, and whether platform detection fails.
ResourceEnvs ==
    [attrs : {EmptyAttrs, [k \in {"team"} |-> "env"], [k \in {"host.name"} |-> "env"]},
     detectFails : BOOLEAN]

NotResolved == [done |-> FALSE]

ResourceIdle == rcfg = NotResolved /\ renv = NotResolved /\ rresult = NotResolved

\* resource, err := resourceConf.newResource(startCtx)
NewResource ==
    /\ ~rresult.done
    /\ rresult' = [done |-> TRUE,
                   options |-> ResourceGetOptions(rcfg),
                   resource |-> NewResourceFn(rcfg, renv)]
    /\ UNCHANGED <<rcfg, renv, lifecycleVars, exporterVars, spanVars,
                   propagationVars, concurrentVars>>

-----------------------------------------------------------------------------
(* The span helpers. *)

\* SDK: the span status codes, ordered Unset < Error < Ok.
Unset == [code |-> "Unset", rank |-> 0]
Error == [code |-> "Error", rank |-> 1]
Ok == [code |-> "Ok", rank |-> 2]

\* SDK: the number of events a span keeps when the provider is built, as
\* OtelInit builds it, without span limits of its own.
EventCountLimit == 128

NoSpan ==
    [started |-> FALSE, recording |-> FALSE, events |-> 0, dropped |-> 0,
     status |-> [code |-> Unset.code, description |-> ""]]

\* SDK: otel.Tracer(...).Start: the span records if a provider is
\* registered and the parent context does not carry an unsampled span.
TracerStart(registered, parent) ==
    [NoSpan EXCEPT !.started = TRUE,
                   !.recording = registered # NoProvider /\ parent # "unsampled"]

\* SDK: Span.RecordError adds one exception event to a recording span; a
\* span at its event limit drops its oldest event for it.
RecordError(sp, err) ==
    IF ~sp.recording THEN sp
    ELSE IF sp.events < EventCountLimit THEN [sp EXCEPT !.events = @ + 1]
    ELSE [sp EXCEPT !.dropped = @ + 1]

RankOf(code) == IF code = Ok.code THEN Ok.rank
                ELSE IF code = Error.code THEN Error.rank ELSE Unset.rank

\* SDK: Span.SetStatus on a recording span, unless the status is already
\* set to a higher code; the description is kept for Error only.
SetStatus(sp, code, description) ==
    IF ~sp.recording \/ RankOf(sp.status.code) > code.rank THEN sp
    ELSE [sp EXCEPT !.status =
             [code |-> code.code,
              description |-> IF code = Error THEN description ELSE ""]]

\* Variant of ErrorFn that sets the status and records no event.
ErrorFn_StatusOnly(sp, err) == SetStatus(sp, Error, err)

\* Error(span, err): RecordError, then SetStatus(codes.Error, err.Error())
ErrorFn(sp, err) == SetStatus(RecordError(sp, err), Error, err)

\* StatusOK(span): SetStatus(codes.Ok, "")
StatusOKFn(sp) == SetStatus(sp, Ok, "")

\* The messages of the errors a caller reports.
ErrorMessages == {"e1", "e2"}

ParentContexts == {"none", "sampled", "unsampled"}

NoHelperCalls == [errors |-> 0, oks |-> 0, last |-> "none", err |-> ""]

SpanIdle == span = NoSpan /\ helperCalls = NoHelperCalls

StartSpan ==
    /\ ~panicked
    /\ ~span.started
    /\ \E parent \in ParentContexts : span' = TracerStart(globalTP, parent)
    /\ UNCHANGED <<helperCalls, lifecycleVars, exporterVars, resourceVars,
                   propagationVars, concurrentVars>>

ErrorHelper ==
    /\ ~panicked
    /\ span.started
    /\ helperCalls.errors < MaxErrorCalls
    /\ \E err \in ErrorMessages :
          /\ span' = ErrorFn(span, err)
          /\ helperCalls' = [helperCalls EXCEPT !.errors = @ + 1,
                                                !.last = "Error", !.err = err]
    /\ UNCHANGED <<lifecycleVars, exporterVars, resourceVars, propagationVars,
                   concurrentVars>>

StatusOK ==
    /\ ~panicked
    /\ span.started
    /\ span' = StatusOKFn(span)
    /\ helperCalls' = [helperCalls EXCEPT !.oks = 1, !.last = "StatusOK"]
    /\ UNCHANGED <<lifecycleVars, exporterVars, resourceVars, propagationVars,
                   concurrentVars>>

\* OtelInit, called before the span is started: a later call changes
\* nothing about a span that exists.
InitBeforeSpan == ~span.started /\ OtelInit

-----------------------------------------------------------------------------
(* The TRACEPARENT export.  Strings are sequences of characters.           *)

\* const traceParent = "TRACEPARENT"
traceParent == <<"T", "R", "A", "C", "E", "P", "A", "R", "E", "N", "T">>

\* SDK: the header the trace-context propagator reads and writes.
traceparentHeader == <<"t", "r", "a", "c", "e", "p", "a", "r", "e", "n", "t">>

baggageHeader == <<"b", "a", "g", "g", "a", "g", "e">>

UpperCase == <<"A", "C", "E", "N", "P", "R", "T">>
LowerCase == <<"a", "c", "e", "n", "p", "r", "t">>

\* strings.ToLower
ToLower(str) ==
    [i \in 1..Len(str) |->
        IF \E j \in 1..Len(UpperCase) : UpperCase[j] = str[i]
        THEN LowerCase[CHOOSE j \in 1..Len(UpperCase) : UpperCase[j] = str[i]]
        ELSE str[i]]

HexDigits ==
    <<"0", "1", "2", "3", "4", "5", "6", "7", "8", "9", "a", "b", "c", "d", "e", "f">>

RECURSIVE Hex(_)
\* SDK: the lower-case hexadecimal text of a sequence of bytes.
Hex(bytes) ==
    IF bytes = <<>> THEN <<>>
    ELSE <<HexDigits[(Head(bytes) \div 16) + 1], HexDigits[(Head(bytes) % 16) + 1]>>
         \o Hex(Tail(bytes))

IsHexText(str) == \A i \in 1..Len(str) : \E d \in 1..16 : HexDigits[d] = str[i]

HexValue(ch) == (CHOOSE d \in 1..16 : HexDigits[d] = ch) - 1

\* SDK: the bytes a hexadecimal text of even length stands for.
UnHex(str) ==
    [i \in 1..(Len(str) \div 2) |->
        16 * HexValue(str[2 * i - 1]) + HexValue(str[2 * i])]

IsZero(bytes) == \A i \in 1..Len(bytes) : bytes[i] = 0

\* SDK: SpanContext.IsValid: a trace ID and a span ID that are not zero.
IsValid(sc) == sc.hasSpan /\ ~IsZero(sc.traceID) /\ ~IsZero(sc.spanID)

NoSpanContext ==
    [hasSpan |-> FALSE, traceID |-> [i \in 1..16 |-> 0],
     spanID |-> [i \in 1..8 |-> 0], sampled |-> FALSE, remote |-> FALSE]

\* SDK: TraceContext.Inject: "00-<trace id>-<span id>-<flags>" under the
\* traceparent header, for a valid span context only.
TraceContextInject(ctx, carrier) ==
    IF ~IsValid(ctx.sc) THEN carrier
    ELSE [k \in DOMAIN carrier \cup {traceparentHeader} |->
            IF k = traceparentHeader
            THEN <<"0", "0", "-">> \o Hex(ctx.sc.traceID) \o <<"-">>
                 \o Hex(ctx.sc.spanID) \o <<"-">>
                 \o Hex(<<IF ctx.sc.sampled THEN 1 ELSE 0>>)
            ELSE carrier[k]]

\* SDK: Baggage.Inject: the baggage header, if the context has baggage.
BaggageInject(ctx, carrier) ==
    IF ctx.baggage = <<>> THEN carrier
    ELSE [k \in DOMAIN carrier \cup {baggageHeader} |->
            IF k = baggageHeader THEN ctx.baggage ELSE carrier[k]]

\* otel.GetTextMapPropagator().Inject(ctx, carrier): nothing until a
\* propagator is installed, then trace context and baggage in turn.
PropagatorInject(prop, ctx, carrier) ==
    IF prop = NoopPropagator THEN carrier
    ELSE BaggageInject(ctx, TraceContextInject(ctx, carrier))

\* propagation.MapCarrier{}
EmptyCarrier == [k \in {} |-> <<>>]

\* MapCarrier.Get: the value stored under key, or the empty string.
CarrierGet(carrier, key) == IF key \in DOMAIN carrier THEN carrier[key] ELSE <<>>

\* Variant of GetTraceParentEnvFn that reads the carrier under the
\* variable's upper-case name.
GetTraceParentEnvFn_UpperKey(prop, ctx) ==
    LET carrier == PropagatorInject(prop, ctx, EmptyCarrier) IN
    traceParent \o <<"=">> \o CarrierGet(carrier, traceParent)

\* GetTraceParentEnv(ctx): fmt.Sprintf("%s=%s", traceParent, carrier.Get(...))
GetTraceParentEnvFn(prop, ctx) ==
    LET carrier == PropagatorInject(prop, ctx, EmptyCarrier) IN
    traceParent \o <<"=">> \o CarrierGet(carrier, ToLower(traceParent))

\* SDK: TraceContext.Extract on a carrier that holds `value` under the
\* traceparent header: version 00, 32 and 16 hexadecimal digits that are
\* not all zero, two of flags; anything else gives no span context.
TraceContextExtract(value) ==
    IF /\ Len(value) = 55
       /\ value[3] = "-" /\ value[36] = "-" /\ value[53] = "-"
       /\ SubSeq(value, 1, 2) = <<"0", "0">>
       /\ IsHexText(SubSeq(value, 4, 35))
       /\ IsHexText(SubSeq(value, 37, 52))
       /\ IsHexText(SubSeq(value, 54, 55))
       /\ ~IsZero(UnHex(SubSeq(value, 4, 35)))
       /\ ~IsZero(UnHex(SubSeq(value, 37, 52)))
    THEN [hasSpan |-> TRUE,
          traceID |-> UnHex(SubSeq(value, 4, 35)),
          spanID |-> UnHex(SubSeq(value, 37, 52)),
          sampled |-> UnHex(SubSeq(value, 54, 55))[1] % 2 = 1,
          remote |-> TRUE]
    ELSE NoSpanContext

\* An identifier of n bytes with the given first and last byte.
ID(n, first, last) ==
    [i \in 1..n |-> IF i = 1 THEN first ELSE IF i = n THEN last ELSE 0]

TraceIDs == {ID(16, 0, 0), ID(16, 0, 1), ID(16, 171, 205), ID(16, 255, 16)}
SpanIDs == {ID(8, 0, 0), ID(8, 0, 10), ID(8, 254, 9)}

\* The contexts a caller passes: with or without a span, with or without
\* baggage.
Contexts ==
    [sc : {NoSpanContext}
          \cup [hasSpan : {TRUE}, traceID : TraceIDs, spanID : SpanIDs,
                sampled : BOOLEAN, remote : BOOLEAN],
     baggage : {<<>>, <<"k", "=", "v">>}]

NotExported == [done |-> FALSE]

PropagationIdle == pctx = NotExported /\ envOut = NotExported

GetTraceParentEnv ==
    /\ ~panicked
    /\ envOut' = [done |-> TRUE, propagator |-> globalProp,
                  env |-> GetTraceParentEnvFn(globalProp, pctx)]
    /\ UNCHANGED <<pctx, lifecycleVars, exporterVars, resourceVars, spanVars,
                   concurrentVars>>

-----------------------------------------------------------------------------
(* Specifications. *)

Init ==
    /\ LifecycleInit /\ ExporterIdle /\ ResourceIdle /\ SpanIdle
    /\ PropagationIdle /\ ConcurrentIdle

Next == OtelInit \/ LegacyOtelInit \/ OtelEnd

Spec == Init /\ [][Next]_vars

RetryInit ==
    /\ LifecycleInit /\ ResourceIdle /\ SpanIdle /\ PropagationIdle
    /\ ConcurrentIdle
    /\ ocfg \in RetryConfigs
    /\ oresult = NotBuilt

SpecRetry == RetryInit /\ [][NewSpanExporter]_vars

ConnInit ==
    /\ LifecycleInit /\ ResourceIdle /\ SpanIdle /\ PropagationIdle
    /\ ConcurrentIdle
    /\ ocfg \in ConnConfigs
    /\ oresult = NotBuilt

SpecConn == ConnInit /\ [][NewSpanExporter]_vars

ResourceInit ==
    /\ LifecycleInit /\ ExporterIdle /\ SpanIdle /\ PropagationIdle
    /\ ConcurrentIdle
    /\ rcfg \in ResourceConfigs
    /\ renv \in ResourceEnvs
    /\ rresult = NotResolved

SpecResource == ResourceInit /\ [][NewResource]_vars

SpanNext == InitBeforeSpan \/ StartSpan \/ ErrorHelper \/ StatusOK

SpecSpan == Init /\ [][SpanNext]_vars

PropagationInit ==
    /\ LifecycleInit /\ ExporterIdle /\ ResourceIdle /\ SpanIdle
    /\ ConcurrentIdle
    /\ pctx \in Contexts
    /\ envOut = NotExported

PropagationNext == OtelInit \/ GetTraceParentEnv

SpecPropagation == PropagationInit /\ [][PropagationNext]_vars

ConcurrentInit ==
    /\ LifecycleInit /\ ExporterIdle /\ ResourceIdle /\ SpanIdle
    /\ PropagationIdle
    /\ goroutines = [g \in Goroutines |-> Entered]

\* OtelEnd, called once every concurrent OtelInit has returned
EndAfterInits == AllReturned /\ OtelEnd

ConcurrentNext ==
    \/ \E g \in Goroutines :
          \/ StepNewResource(g)
          \/ StepNewSpanExporter(g)
          \/ StepAssignTp(g)
          \/ StepLoadTp(g)
          \/ StepSetTracerProvider(g)
          \/ StepSetTextMapPropagator(g)
    \/ EndAfterInits

SpecConcurrent == ConcurrentInit /\ [][ConcurrentNext]_vars

-----------------------------------------------------------------------------
(* Lifecycle claims. *)

InitStep == nCalls' = nCalls + 1 /\ lastCall'.op = "OtelInit"
EndStep == nCalls' = nCalls + 1 /\ lastCall'.op = "OtelEnd"

\* The error an initialization attempt with failures `a` has to report:
\* the first of resource, exporter-kind, file and exporter failure.
FirstFailure(a) ==
    IF a.resErr # Nil THEN a.resErr
    ELSE IF a.kind \notin {"config", consoleExporter, fileExporter, otlpExporter}
         THEN "ErrNotImplemented"
    ELSE IF a.kind = fileExporter /\ a.fileErr # Nil THEN a.fileErr
    ELSE a.expErr

\* C1: whenever resource resolution, exporter construction, file creation
\* or the recognition of the legacy exporter kind fails, OtelInit returns
\* that error without panicking, and tp, the registered provider and the
\* propagator are what they were before the call; a resource error also
\* means that no exporter construction was attempted.
C1_InitFailFast ==
    [][InitStep =>
        /\ ~panicked'
        /\ lastCall'.ret = FirstFailure(lastCall'.args)
        /\ (lastCall'.ret # Nil =>
               /\ tp' = tp
               /\ globalTP' = globalTP
               /\ globalProp' = globalProp
               /\ providers' = providers)
        /\ (lastCall'.args.resErr # Nil => expCalls' = expCalls)]_vars

\* A failed OtelInit after an earlier successful one: there is a provider
\* and a propagator for the failure to leave alone.
C1_Witness ==
    /\ lastCall.op = "OtelInit"
    /\ lastCall.ret = "ErrExporter"
    /\ tp # NoProvider
    /\ globalProp = CompositePropagator

\* C2: OtelEnd on an Active provider calls ForceFlush first; if that
\* returns an error OtelEnd returns it and Shutdown is not invoked;
\* otherwise Shutdown is invoked next and OtelEnd returns its result.
C2_FlushThenShutdown ==
    [][(EndStep /\ tp # NoProvider) =>
        LET old == providers[tp].log
            new == providers'[tp].log
            n == Len(old) IN
        /\ Len(new) > n
        /\ SubSeq(new, 1, n) = old
        /\ new[n + 1].m = "ForceFlush"
        /\ new[n + 1].r = lastCall'.args.flushRes
        /\ IF new[n + 1].r # Nil
           THEN Len(new) = n + 1 /\ lastCall'.ret = new[n + 1].r
           ELSE /\ Len(new) = n + 2
                /\ new[n + 2].m = "Shutdown"
                /\ lastCall'.ret = new[n + 2].r]_vars

\* OtelEnd returned the flush error and the provider was never shut down.
C2_Witness ==
    /\ lastCall.op = "OtelEnd"
    /\ lastCall.ret = "ErrFlush"
    /\ tp # NoProvider
    /\ ~IsShutdown(providers[tp])
    /\ Len(providers[tp].log) = 1

\* The second of two OtelEnd calls in a row, after a successful OtelInit.
SecondEndStep == EndStep /\ lastCall.op = "OtelEnd" /\ globalTP # NoProvider

\* The call changed nothing about the provider's lifecycle.
EndWasNoOp ==
    /\ providers'[tp].shutdown = providers[tp].shutdown
    /\ providers'[tp].stops = providers[tp].stops

\* C3 as stated: the second of two OtelEnd calls in a row does not panic
\* and either returns an error or is a no-op.
C3_SecondEndErrorOrNoOp ==
    [][SecondEndStep =>
        /\ ~panicked'
        /\ tp # NoProvider
        /\ (lastCall'.ret # Nil \/ EndWasNoOp)]_vars

\* C3, amended: the second of two OtelEnd calls in a row does not panic and
\* runs against the same provider; if the first call got as far as
\* Shutdown, the second returns an error or is a no-op.
C3_SecondEndNeverPanics ==
    [][SecondEndStep =>
        /\ ~panicked'
        /\ tp # NoProvider
        /\ tp' = tp
        /\ (IsShutdown(providers[tp]) =>
               /\ lastCall'.ret \in {Nil, "ErrFlush"}
               /\ (lastCall'.ret # Nil \/ EndWasNoOp))]_vars

\* Two OtelEnd calls in a row, both completed, on one provider.
C3_Witness ==
    /\ lastCall.op = "OtelEnd"
    /\ lastCall.prev = "OtelEnd"
    /\ lastCall.ret = Nil
    /\ ~panicked
    /\ tp # NoProvider
    /\ Len(providers[tp].log) = 4
    /\ providers[tp].stops = 1

\* C4: there is one registered provider, and it is tp; a successful
\* OtelInit replaces both with a new provider and makes no call on any
\* provider constructed before, which is no longer reachable through tp.
C4_SingleRegistration ==
    [][/\ globalTP' = tp'
       /\ ((InitStep /\ lastCall'.ret = Nil) =>
              /\ tp' = Len(providers) + 1
              /\ tp' # tp
              /\ Len(providers') = Len(providers) + 1
              /\ \A i \in 1..Len(providers) : providers'[i] = providers[i])]_vars

\* A second successful OtelInit while the first provider was never flushed
\* or shut down.
C4_Witness ==
    /\ Len(providers) = 2
    /\ tp = 2
    /\ globalTP = 2
    /\ providers[1].log = <<>>
    /\ lastCall.op = "OtelInit"
    /\ lastCall.ret = Nil

-----------------------------------------------------------------------------
(* Exporter claims. *)

\* The last value the options give to `field`, or `default` if none does.
LastSetting(options, field, default) ==
    LET at == {i \in 1..Len(options) : options[i].field = field} IN
    IF at = {} THEN default
    ELSE options[CHOOSE i \in at : \A j \in at : j <= i].val

RetryFields == {"Enabled", "InitialInterval", "MaxInterval", "MaxElapsedTime"}

\* C5: with a non-empty RetryOptions list the exporter's retry policy is
\* the built-in default policy with only the named fields overridden, the
\* last option for a field winning.
C5_RetryOverDefault ==
    (oresult.done /\ Len(ocfg.RetryOptions) > 0) =>
        \A f \in RetryFields :
            oresult.retry[f] = LastSetting(ocfg.RetryOptions, f, DefaultRetryConfig[f])

\* The connection-related fields at their zero values.
WithoutConnFields(o) ==
    [o EXCEPT !.Endpoint = "", !.Insecure = FALSE, !.TlsCredentials = Nil,
              !.DialOptions = <<>>, !.ReconnectionPeriod = 0,
              !.ServiceConfig = ""]

\* What of a built exporter decides its behaviour.
Behaviour(e) ==
    [connection |-> e.connection, headers |-> e.headers, retry |-> e.retry,
     timeout |-> e.timeout]

\* C6: with GrpcConn set the exporter uses the supplied connection, and it
\* is the exporter the same configuration builds with Endpoint, Insecure,
\* TlsCredentials, DialOptions, ReconnectionPeriod and ServiceConfig zero.
C6_GrpcConnPrecedence ==
    (oresult.done /\ ocfg.GrpcConn # Nil) =>
        /\ oresult.connection = [kind |-> "supplied", conn |-> ocfg.GrpcConn]
        /\ Behaviour(oresult) = Behaviour(OtlpNewSpanExporter(WithoutConnFields(ocfg)))

\* An exporter built from a configuration with a connection and every
\* other connection-related field set as well.
C6_Witness ==
    /\ oresult.done
    /\ ocfg.GrpcConn # Nil
    /\ ocfg.Endpoint # ""
    /\ ocfg.Insecure
    /\ ocfg.TlsCredentials # Nil
    /\ ocfg.DialOptions # <<>>
    /\ ocfg.ReconnectionPeriod # 0
    /\ ocfg.ServiceConfig # ""
    /\ oresult.connection.kind = "supplied"

-----------------------------------------------------------------------------
(* Resource claims. *)

Resolved == rresult.done /\ rresult.resource.err = Nil

HasAttr(res, k, v) == k \in DOMAIN res.attrs /\ res.attrs[k] = v

\* C7: every key/value pair of a non-empty Attributes field is in the
\* resource newResource returns, whatever the other fields are.
C7_AttributesVerbatim ==
    (Resolved /\ Len(rcfg.Attributes) > 0) =>
        \A i \in 1..Len(rcfg.Attributes) :
            HasAttr(rresult.resource, rcfg.Attributes[i].k, rcfg.Attributes[i].v)

\* The option a boolean field stands for.
OptionOf(toggle) == "With" \o toggle

Count(options, name) == Cardinality({i \in 1..Len(options) : options[i].name = name})

NothingRequested ==
    /\ \A t \in ToggleSet : ~rcfg[t]
    /\ rcfg.Attributes = <<>>
    /\ rcfg.detectors = <<>>

\* C8: the option list always holds the schema-URL and telemetry-SDK
\* options, and each other option once if its boolean field is true or its
\* collection non-empty and not at all otherwise; with nothing requested
\* the resource is the default resource with the SDK identification, under
\* the schema URL, and no attribute comes from an attribute group.
C8_OptionsIffRequested ==
    rresult.done =>
        LET options == rresult.options IN
        /\ Count(options, "WithSchemaURL") = 1
        /\ Count(options, "WithTelemetrySDK") = 1
        /\ Count(options, "WithAttributes") = IF Len(rcfg.Attributes) > 0 THEN 1 ELSE 0
        /\ Count(options, "WithDetectors") = IF Len(rcfg.detectors) > 0 THEN 1 ELSE 0
        /\ \A t \in ToggleSet :
              Count(options, OptionOf(t)) = IF rcfg[t] THEN 1 ELSE 0
        /\ Len(options) = 2 + Cardinality({t \in ToggleSet : rcfg[t]})
                            + (IF Len(rcfg.Attributes) > 0 THEN 1 ELSE 0)
                            + (IF Len(rcfg.detectors) > 0 THEN 1 ELSE 0)
        /\ (NothingRequested =>
               /\ rresult.resource.err = Nil
               /\ rresult.resource.schemaURL = SchemaURL
               /\ rresult.resource.attrs =
                     MergeAttrs(SdkResourceDefault(renv).attrs, Detected(SdkKeys))
               /\ \A k \in GroupKeys :
                     k \in DOMAIN rresult.resource.attrs =>
                        HasAttr(SdkResourceDefault(renv), k, rresult.resource.attrs[k]))

\* A resource resolved with nothing requested, in an environment that
\* itself names an attribute.
C8_Witness ==
    /\ rresult.done
    /\ NothingRequested
    /\ renv.attrs # EmptyAttrs
    /\ Len(rresult.options) = 2

-----------------------------------------------------------------------------
(* Span helper claims. *)

Min(a, b) == IF a < b THEN a ELSE b

ErrorStatus(err) == [code |-> Error.code, description |-> err]

\* C9 as stated: after n calls of Error on a span, in any interleaving
\* with StatusOK, the span holds n exception events, and after an Error
\* call the status is Error with that call's message.
C9_OneEventPerError ==
    span.started =>
        /\ span.events = helperCalls.errors
        /\ (helperCalls.last = "Error" => span.status = ErrorStatus(helperCalls.err))

\* C9, amended: a recording span holds one exception event per Error call
\* up to the event limit, its status after an Error call is Error with that
\* call's message provided StatusOK was not called before; a span that
\* does not record is left as it was.
C9_OneEventPerErrorWhileRecording ==
    span.started =>
        IF span.recording
        THEN /\ span.events = Min(helperCalls.errors, EventCountLimit)
             /\ span.events + span.dropped = helperCalls.errors
             /\ ((helperCalls.last = "Error" /\ helperCalls.oks = 0) =>
                    span.status = ErrorStatus(helperCalls.err))
        ELSE span = [NoSpan EXCEPT !.started = TRUE]

\* A recording span after two Error calls with different messages.
C9_Witness ==
    /\ span.recording
    /\ helperCalls.errors = 2
    /\ span.events = 2
    /\ helperCalls.oks = 0
    /\ helperCalls.last = "Error"
    /\ span.status = ErrorStatus("e2")

-----------------------------------------------------------------------------
(* Propagation claims. *)

HasEnvForm(env) ==
    /\ Len(env) >= Len(traceParent) + 1
    /\ SubSeq(env, 1, Len(traceParent)) = traceParent
    /\ env[Len(traceParent) + 1] = "="

\* The <value> of TRACEPARENT=<value>.
EnvValue(env) == SubSeq(env, Len(traceParent) + 2, Len(env))

RoundTrips(env, sc) ==
    /\ HasEnvForm(env)
    /\ TraceContextExtract(EnvValue(env)).hasSpan
    /\ TraceContextExtract(EnvValue(env)).traceID = sc.traceID
    /\ TraceContextExtract(EnvValue(env)).spanID = sc.spanID

\* C10 as stated: for any context carrying a span context the returned
\* string is TRACEPARENT=<value>, and extracting from <value> gives the
\* context's trace and span identifiers.
C10_RoundTrip ==
    (envOut.done /\ pctx.sc.hasSpan) => RoundTrips(envOut.env, pctx.sc)

\* C10, amended: the returned string always has the form
\* TRACEPARENT=<value>; once OtelInit has installed the propagator, for a
\* context whose span context is valid, extracting from <value> gives the
\* context's trace and span identifiers; otherwise <value> is empty.
C10_RoundTripAfterInit ==
    envOut.done =>
        /\ HasEnvForm(envOut.env)
        /\ IF envOut.propagator = CompositePropagator /\ IsValid(pctx.sc)
           THEN RoundTrips(envOut.env, pctx.sc)
           ELSE EnvValue(envOut.env) = <<>>

\* An export, after OtelInit, of a valid span context with bytes in both
\* hexadecimal digits.
C10_Witness ==
    /\ envOut.done
    /\ envOut.propagator = CompositePropagator
    /\ pctx.sc.hasSpan
    /\ pctx.sc.traceID = ID(16, 171, 205)
    /\ pctx.sc.spanID = ID(8, 254, 9)
    /\ Len(envOut.env) = 67

-----------------------------------------------------------------------------
(* Concurrency claims. *)

\* C11: under any interleaving of concurrent OtelInit calls, once every
\* call has returned, tp (the provider OtelEnd flushes and shuts down) is
\* the provider registered globally (the one StartSpan gets tracers from).
C11_TpIsRegisteredAfterConcurrentInit ==
    AllReturned => tp = globalTP

\* C12: whenever OtelEnd is called, be it before any OtelInit or after an
\* OtelInit that returned an error, tp refers to a constructed tracer
\* provider, and the call returns a value instead of panicking.
C12_EndNeverDereferencesNil ==
    [][EndStep =>
          /\ tp \in 1..Len(providers)
          /\ ~panicked'
          /\ lastCall'.ret # "panic"]_vars

====
